---- MODULE Spec2Model ----
(***************************************************************************)
(* libhockey/crashes.py: the paginated retrieval of crash groups and crash *)
(* instances (HockeyCrashesClient) and the equality / hashing policy of    *)
(* HockeyCrashGroup.                                                       *)
(*                                                                         *)
(* Python runs the client on one thread.  A generator runs only while a    *)
(* consumer is inside next(); the variable `running` names the invocation  *)
(* whose code holds the thread (0: the caller's own code runs).            *)
(*                                                                         *)
(* Specifications:                                                         *)
(*   Spec             one invocation of any of the four retrieval          *)
(*                    operations;                                          *)
(*   SpecPair         a lazy form pulled to its end, then an eager form    *)
(*                    over the same server responses;                      *)
(*   SpecLazy         one lazy sequence whose consumer keeps pulling;      *)
(*   SpecRetry        one lazy sequence over a transport whose attempts    *)
(*                    may fail;                                            *)
(*   SpecInterleaved  two lazy sequences pulled in any interleaving;       *)
(*   SpecAgain        a lazy sequence, then a second invocation;           *)
(*   SpecGroups       two HockeyCrashGroup records compared and hashed;    *)
(*   SpecDecode       a raw record decoded into its class.                 *)
(***************************************************************************)
EXTENDS Integers, Sequences, FiniteSets, TLC

(* ------------------------------ bounds -------------------------------- *)
\* highest page number the server serves / highest total_pages it reports
MaxPages == 3
\* most items on one page
MaxItems == 2
\* largest max_count passed to groups_for_version
MaxCount == 2
\* largest page= argument passed to a lazy form
MaxStart == 2

\* The invocations of one behaviour, numbered in the order they are made.
Inv == {1, 2}

(* ------------------------- program constants -------------------------- *)
PER_PAGE == 100

\* get called with one attempt fewer.
RETRY_COUNT_two == 3 - 1

RETRY_COUNT == 3

VARIABLES
    resource,   \* the collection retrieved: "crash_reasons" or "crashes"
    server,     \* page number -> the response the server gives for that page
    inv,        \* invocation -> its generator / eager call state
    running,    \* the invocation whose code is executing, 0 when none
    a, b,       \* two HockeyCrashGroup records
    cmp,        \* the outcome of comparing a and b
    cls,        \* the class a raw record is decoded into
    raw,        \* a raw (JSON) record: key -> value
    decoded     \* the object deserialize made of it

vars == <<resource, server, inv, running, a, b, cmp, cls, raw, decoded>>
pagingVars == <<resource, server, inv, running>>
groupVars == <<a, b, cmp>>
decodeVars == <<cls, raw, decoded>>

Pages == 1..MaxPages

(* ------------------------------ helpers ------------------------------- *)
Last(s) == s[Len(s)]

Min(x, y) == IF x <= y THEN x ELSE y

Max(x, y) == IF x >= y THEN x ELSE y

Prefix(s, k) == SubSeq(s, 1, Min(Max(k, 0), Len(s)))

\* Optional[int]: <<>> is None, <<k>> is k
NoneInt == <<>>

(* ------------------------------ server -------------------------------- *)
\* The n records of page p, in the order the server returns them.  A record
\* is identified by its place in the collection.
ItemsOf(p, n) == [k \in 1..n |-> [page |-> p, pos |-> k]]

Unset == [status |-> "unset", items |-> <<>>, total_pages |-> 0, error |-> ""]

\* What get() + deserialize() can give for page p: a decoded envelope, or an
\* exception (RequestFailed from get, DecodeError from deserialize).
OkResponses(p) ==
    { [status |-> "ok", items |-> ItemsOf(p, n), total_pages |-> t, error |-> ""] :
        n \in 0..MaxItems, t \in 0..MaxPages }

ErrResponses ==
    { [status |-> "error", items |-> <<>>, total_pages |-> 0, error |-> e] :
        e \in {"RequestFailed", "DecodeError"} }

\* The server answers a page the same way every time it is asked: the answer
\* is fixed at the first request of the page.
Answers(p) ==
    IF server[p].status = "unset" THEN OkResponses(p) \cup ErrResponses
    ELSE {server[p]}

\* The rest of the envelope (current_page, per_page, total_entries), which
\* the server may fill in faithfully or leave stale.
Metas(p, answer) ==
    { [current_page |-> p, per_page |-> PER_PAGE, total_entries |-> Len(answer.items)],
      [current_page |-> 1, per_page |-> PER_PAGE, total_entries |-> 0] }

\* HockeyCrashGroupsResponse / HockeyCrashesResponse as decoded.
Envelope(answer, meta) ==
    [ status |-> "ok", items |-> answer.items, total_pages |-> answer.total_pages,
      current_page |-> meta.current_page, per_page |-> meta.per_page,
      total_entries |-> meta.total_entries ]

\* No envelope: the frame has not decoded one, or the generator is over.
NoResponse ==
    [ status |-> "none", items |-> <<>>, total_pages |-> 0, current_page |-> 0,
      per_page |-> 0, total_entries |-> 0 ]

(* ---------------------------- invocations ----------------------------- *)
NoInv ==
    [ form |-> "none",          \* "lazy" | "eager"
      app_id |-> "",            \* the arguments of the innermost frame
      app_version_id |-> "",
      crash_group_id |-> "",    \* "" in a crash-groups invocation
      start |-> 1,              \* the page= argument
      max_count |-> NoneInt,    \* groups_for_version's max_count
      pc |-> "none",
      page |-> 1,               \* `page` of the innermost generator frame
      depth |-> 0,              \* generator frames waiting in `yield from`
      response |-> NoResponse,  \* the innermost frame's decoded envelope
      idx |-> 0,                \* position of its for loop
      yielded |-> <<>>,         \* every item the generator has yielded
      requests |-> <<>>,        \* every request passed to self.get
      groups |-> <<>>,          \* the eager form's accumulator
      result |-> "none",        \* eager call: "running" | "returned" | "raised"
      ret |-> <<>>,             \* the list the eager call returned
      error |-> "",             \* the exception that left the invocation
      tries |-> 0,              \* failed attempts of the get in progress
      attempts |-> <<>>,        \* attempts each finished get has made
      last |-> "none" ]         \* how the latest next() ended:
                                \* "item" | "StopIteration" | "raise"

\* The applications, versions and crash groups asked about.
Target1 == [app_id |-> "a1", app_version_id |-> "v1", crash_group_id |-> "g1"]

Target2 == [app_id |-> "a2", app_version_id |-> "v2", crash_group_id |-> "g2"]

Targets == {Target1, Target2}

\* The request of lines 169-174 / 224-226, built from the frame's locals.
RequestUrl(kind, frame) ==
    [ path |-> kind, app_id |-> frame.app_id, app_version_id |-> frame.app_version_id,
      crash_group_id |-> IF kind = "crashes" THEN frame.crash_group_id ELSE "",
      per_page |-> PER_PAGE, order |-> "desc", page |-> frame.page,
      retry_count |-> RETRY_COUNT ]

\* A caller that works on one sequence at a time makes or pulls invocation
\* i only when every other invocation it made has come to its end.
OneAtATime(i) ==
    \A j \in Inv \ {i} : inv[j].pc \in {"none", "exhausted", "raised", "closed"}

\* Invocations are numbered in the order they are made.
CanCreate(i) ==
    /\ running = 0
    /\ inv[i].form = "none"
    /\ \A j \in Inv : j < i => inv[j].form # "none"

\* A generator that requests its first page when it is made.
NewGenerator_prefetch(app_id, app_version_id, crash_group_id, start) ==
    LET frame == [NoInv EXCEPT !.form = "lazy", !.app_id = app_id,
                               !.app_version_id = app_version_id,
                               !.crash_group_id = crash_group_id,
                               !.start = start, !.page = start, !.pc = "created"]
    IN  [frame EXCEPT !.requests = <<RequestUrl(resource, frame)>>]

\* A generator that takes up the page the client's earlier sequence had
\* reached.
NewGenerator_cursor(app_id, app_version_id, crash_group_id, start) ==
    LET cursor == IF inv[1].form = "lazy" /\ inv[1].requests # <<>>
                  THEN inv[1].page ELSE start
    IN  [NoInv EXCEPT !.form = "lazy", !.app_id = app_id,
                      !.app_version_id = app_version_id,
                      !.crash_group_id = crash_group_id,
                      !.start = start, !.page = cursor, !.pc = "created"]

\* Calling a generator function only builds the generator object.
NewGenerator(app_id, app_version_id, crash_group_id, start) ==
    [NoInv EXCEPT !.form = "lazy", !.app_id = app_id, !.app_version_id = app_version_id,
                  !.crash_group_id = crash_group_id,
                  !.start = start, !.page = start, !.pc = "created"]

generate_groups_for_version(i, app_id, app_version_id, start) ==
    /\ resource = "crash_reasons"
    /\ CanCreate(i)
    /\ inv' = [inv EXCEPT ![i] = NewGenerator(app_id, app_version_id, "", start)]
    /\ UNCHANGED <<resource, server, running, groupVars, decodeVars>>

generate_in_group(i, app_id, app_version_id, crash_group_id, start) ==
    /\ resource = "crashes"
    /\ CanCreate(i)
    /\ inv' = [inv EXCEPT ![i] =
                 NewGenerator(app_id, app_version_id, crash_group_id, start)]
    /\ UNCHANGED <<resource, server, running, groupVars, decodeVars>>

\* The consumer of a lazy form calls next(): the generator starts, or goes on
\* after the yield it is suspended at.
Pull(i) ==
    /\ running = 0
    /\ inv[i].form = "lazy"
    /\ inv[i].pc \in {"created", "suspended"}
    /\ running' = i
    /\ inv' = [inv EXCEPT ![i] =
                 IF inv[i].pc = "created"
                 THEN [@ EXCEPT !.pc = "fetch"]
                 ELSE [@ EXCEPT !.pc = "loop", !.idx = @ + 1]]
    /\ UNCHANGED <<resource, server, groupVars, decodeVars>>

\* next() on a generator that has returned or raised: StopIteration at once,
\* none of the generator's code runs.
PullEnded(i) ==
    /\ running = 0
    /\ inv[i].form = "lazy"
    /\ inv[i].pc \in {"exhausted", "raised"}
    /\ inv' = [inv EXCEPT ![i] = [@ EXCEPT !.last = "StopIteration"]]
    /\ UNCHANGED <<resource, server, running, groupVars, decodeVars>>

\* Where control goes when the generator yields, ends or raises.
Caller(i) == IF inv[i].form = "lazy" THEN 0 ELSE i

\* Line 174 / 226, inside get: an attempt fails while the budget allows
\* another one, and get tries again.
GetAttemptFails(i) ==
    /\ running = i
    /\ inv[i].pc = "fetch"
    /\ inv[i].page \in Pages
    /\ inv[i].tries + 1 < RETRY_COUNT
    /\ inv' = [inv EXCEPT ![i] = [@ EXCEPT !.tries = @ + 1]]
    /\ UNCHANGED <<resource, server, running, groupVars, decodeVars>>

\* The attempts a get has made when it gives up (RequestFailed: the budget
\* is spent) or when the body it obtained does not decode (DecodeError).
AttemptsAtRaise(error, tries) ==
    IF error = "RequestFailed" THEN RETRY_COUNT ELSE tries + 1

\* The count of failed attempts kept from one page's get to the next.
GenFetch_sharedbudget(i) ==
    /\ running = i
    /\ inv[i].pc = "fetch"
    /\ inv[i].page \in Pages
    /\ \E answer \in Answers(inv[i].page) :
         /\ answer.status = "ok"
         /\ server' = [server EXCEPT ![inv[i].page] = answer]
         /\ \E meta \in Metas(inv[i].page, answer) :
              inv' = [inv EXCEPT ![i] =
                      [@ EXCEPT !.requests = Append(@, RequestUrl(resource, inv[i])),
                                !.attempts = Append(@, inv[i].tries + 1),
                                !.response = Envelope(answer, meta),
                                !.idx = 1,
                                !.pc = "loop"]]
    /\ UNCHANGED <<resource, running, groupVars, decodeVars>>

\* Lines 169-180 / 224-230: request the page (the attempt succeeds), decode
\* the envelope.
GenFetch(i) ==
    /\ running = i
    /\ inv[i].pc = "fetch"
    /\ inv[i].page \in Pages
    /\ \E answer \in Answers(inv[i].page) :
         /\ answer.status = "ok"
         /\ server' = [server EXCEPT ![inv[i].page] = answer]
         /\ \E meta \in Metas(inv[i].page, answer) :
              inv' = [inv EXCEPT ![i] =
                      [@ EXCEPT !.requests = Append(@, RequestUrl(resource, inv[i])),
                                !.attempts = Append(@, inv[i].tries + 1),
                                !.tries = 0,
                                !.response = Envelope(answer, meta),
                                !.idx = 1,
                                !.pc = "loop"]]
    /\ UNCHANGED <<resource, running, groupVars, decodeVars>>

\* The failure caught and taken for the end of the sequence.
GenFetchRaise_swallow(i) ==
    /\ running = i
    /\ inv[i].pc = "fetch"
    /\ inv[i].page \in Pages
    /\ \E answer \in Answers(inv[i].page) :
         /\ answer.status = "error"
         /\ server' = [server EXCEPT ![inv[i].page] = answer]
         /\ inv' = [inv EXCEPT ![i] =
                      [@ EXCEPT !.requests = Append(@, RequestUrl(resource, inv[i])),
                                !.pc = "exhausted",
                                !.last = "StopIteration",
                                !.response = NoResponse,
                                !.depth = 0]]
    /\ running' = Caller(i)
    /\ UNCHANGED <<resource, groupVars, decodeVars>>

\* The failure raised by an iterator that keeps its place, so that the next
\* pull runs the request again.
GenFetchRaise_resumable(i) ==
    /\ running = i
    /\ inv[i].pc = "fetch"
    /\ inv[i].page \in Pages
    /\ \E answer \in Answers(inv[i].page) :
         /\ answer.status = "error"
         /\ server' = [server EXCEPT ![inv[i].page] = answer]
         /\ inv' = [inv EXCEPT ![i] =
                      [@ EXCEPT !.requests = Append(@, RequestUrl(resource, inv[i])),
                                !.attempts =
                                    Append(@, AttemptsAtRaise(answer.error, inv[i].tries)),
                                !.tries = 0,
                                !.pc = IF inv[i].form = "lazy" THEN "created" ELSE "raised",
                                !.last = "raise",
                                !.error = answer.error,
                                !.result = IF @ = "running" THEN "raised" ELSE @]]
    /\ running' = 0
    /\ UNCHANGED <<resource, groupVars, decodeVars>>

\* Lines 174-176 / 226-228 raising: nothing catches the exception, so it
\* leaves every generator frame and, in an eager form, the call itself.
GenFetchRaise(i) ==
    /\ running = i
    /\ inv[i].pc = "fetch"
    /\ inv[i].page \in Pages
    /\ \E answer \in Answers(inv[i].page) :
         /\ answer.status = "error"
         /\ server' = [server EXCEPT ![inv[i].page] = answer]
         /\ inv' = [inv EXCEPT ![i] =
                      [@ EXCEPT !.requests = Append(@, RequestUrl(resource, inv[i])),
                                !.attempts =
                                    Append(@, AttemptsAtRaise(answer.error, inv[i].tries)),
                                !.tries = 0,
                                !.pc = "raised",
                                !.last = "raise",
                                !.response = NoResponse,
                                !.depth = 0,
                                !.error = answer.error,
                                !.result = IF @ = "running" THEN "raised" ELSE @]]
    /\ running' = 0
    /\ UNCHANGED <<resource, groupVars, decodeVars>>

\* Lines 182-183 / 232-233: yield the next item of the page.
GenYield(i) ==
    /\ running = i
    /\ inv[i].pc = "loop"
    /\ inv[i].idx <= Len(inv[i].response.items)
    /\ inv' = [inv EXCEPT ![i] =
                 [@ EXCEPT !.yielded = Append(@, inv[i].response.items[inv[i].idx]),
                           !.last = "item",
                           !.pc = "suspended"]]
    /\ running' = Caller(i)
    /\ UNCHANGED <<resource, server, groupVars, decodeVars>>

\* The test with >= for >.
ShouldContinue_ge(response, page) == response.total_pages >= page

\* The test made on the total_pages page 1 reported.
ShouldContinue_cached(response, page) == server[1].total_pages > page

\* The test made against the envelope's current_page.
ShouldContinue_current(response, page) ==
    response.total_pages > response.current_page

\* The test made to stop at an empty page as well.
ShouldContinue_nonempty(response, page) ==
    response.total_pages > page /\ Len(response.items) > 0

\* Line 185 / 235: the continuation test on the page's own envelope.
ShouldContinue(response, page) == response.total_pages > page

\* The page taken from a cursor kept on the client: one past the highest
\* page any invocation has requested.
NextPage_shared(page) ==
    LET asked == UNION { { inv[j].requests[k].page : k \in 1..Len(inv[j].requests) } :
                         j \in DOMAIN inv }
    IN  1 + CHOOSE m \in asked : \A x \in asked : x <= m

\* The recursive call given the same page again.
NextPage_same(page) == page

\* The recursive call given page + 2.
NextPage_skip(page) == page + 2

\* Line 186 / 236: the page the recursive call is given.
NextPage(page) == page + 1

\* The recursive call given app_version_id for app_id and app_id for
\* app_version_id.
Arguments_swapped(frame) ==
    [ app_id |-> frame.app_version_id, app_version_id |-> frame.app_id,
      crash_group_id |-> frame.crash_group_id ]

\* Line 186 / 236: the arguments the recursive call is given besides page.
Arguments(frame) ==
    [ app_id |-> frame.app_id, app_version_id |-> frame.app_version_id,
      crash_group_id |-> frame.crash_group_id ]

\* Lines 185-186 / 235-236, once the for loop is over: recurse into the next
\* page, or return from every frame (the generator is exhausted).
GenContinue(i) ==
    /\ running = i
    /\ inv[i].pc = "loop"
    /\ inv[i].idx > Len(inv[i].response.items)
    /\ IF ShouldContinue(inv[i].response, inv[i].page)
       THEN /\ inv' = [inv EXCEPT ![i] =
                         [@ EXCEPT !.app_id = Arguments(inv[i]).app_id,
                                   !.app_version_id = Arguments(inv[i]).app_version_id,
                                   !.crash_group_id = Arguments(inv[i]).crash_group_id,
                                   !.page = NextPage(@),
                                   !.depth = @ + 1,
                                   !.pc = "fetch"]]
            /\ UNCHANGED running
       ELSE /\ inv' = [inv EXCEPT ![i] =
                         [@ EXCEPT !.pc = "exhausted", !.depth = 0,
                                   !.last = "StopIteration",
                                   !.response = NoResponse]]
            /\ running' = Caller(i)
    /\ UNCHANGED <<resource, server, groupVars, decodeVars>>

\* Lines 200-202 / 250: the eager form builds the generator with the default
\* page and starts iterating it at once.
NewEager(app_id, app_version_id, crash_group_id, max_count) ==
    [NoInv EXCEPT !.form = "eager", !.app_id = app_id, !.app_version_id = app_version_id,
                  !.crash_group_id = crash_group_id,
                  !.max_count = max_count, !.pc = "fetch", !.result = "running"]

groups_for_version(i, app_id, app_version_id, max_count) ==
    /\ resource = "crash_reasons"
    /\ CanCreate(i)
    /\ inv' = [inv EXCEPT ![i] = NewEager(app_id, app_version_id, "", max_count)]
    /\ running' = i
    /\ UNCHANGED <<resource, server, groupVars, decodeVars>>

in_group(i, app_id, app_version_id, crash_group_id) ==
    /\ resource = "crashes"
    /\ CanCreate(i)
    /\ inv' = [inv EXCEPT ![i] =
                 NewEager(app_id, app_version_id, crash_group_id, NoneInt)]
    /\ running' = i
    /\ UNCHANGED <<resource, server, groupVars, decodeVars>>

\* The test with `is None` for `is not None`.
BreakNow_noneguard(max_count, groups) ==
    max_count = NoneInt \/ Len(groups) >= max_count[1]

\* Line 205: the early-stop test, made after the append.
BreakNow(max_count, groups) ==
    max_count # NoneInt /\ Len(groups) >= max_count[1]

\* Lines 203-206 (and list() at line 250): take the item just yielded; break
\* and return, or ask the generator for the next one.
EagerLoopBody(i) ==
    /\ running = i
    /\ inv[i].form = "eager"
    /\ inv[i].pc = "suspended"
    /\ LET groups == Append(inv[i].groups, Last(inv[i].yielded))
       IN  IF BreakNow(inv[i].max_count, groups)
           THEN /\ inv' = [inv EXCEPT ![i] =
                             [@ EXCEPT !.groups = groups, !.ret = groups,
                                       !.result = "returned", !.pc = "closed",
                                       !.depth = 0, !.response = NoResponse]]
                /\ running' = 0
           ELSE /\ inv' = [inv EXCEPT ![i] =
                             [@ EXCEPT !.groups = groups, !.pc = "loop",
                                       !.idx = @ + 1]]
                /\ UNCHANGED running
    /\ UNCHANGED <<resource, server, groupVars, decodeVars>>

\* Line 208 / 250: the generator is exhausted, the list is returned.
EagerReturn(i) ==
    /\ running = i
    /\ inv[i].form = "eager"
    /\ inv[i].pc = "exhausted"
    /\ inv' = [inv EXCEPT ![i] = [@ EXCEPT !.ret = inv[i].groups, !.result = "returned"]]
    /\ running' = 0
    /\ UNCHANGED <<resource, server, groupVars, decodeVars>>

(* --------------------------- HockeyCrashGroup ------------------------- *)
\* A str is a sequence of characters.  Optional[str]: <<>> is None, <<s>> is s.
NoneStr == <<>>

Some(s) == <<s>>

\* largest identifier of a crash group
MaxIdentifier == 2

\* The values a signature field takes: None, "a" and "a-a".
FieldValues == {NoneStr, Some(<<"a">>), Some(<<"a", "-", "a">>)}

\* The records compared.  identifier stands for every field outside the
\* signature (counts, timestamps, ...): none of them is read by lines 68-96.
HockeyCrashGroup ==
    [ type : {"HockeyCrashGroup"},
      identifier : 1..MaxIdentifier,
      exception_type : FieldValues,
      reason : FieldValues,
      crash_method : FieldValues,
      crash_file : FieldValues,
      crash_class : FieldValues ]

\* An object of another class, as __eq__ may be handed.
OtherObject ==
    [ type |-> "object", identifier |-> 1, exception_type |-> NoneStr,
      reason |-> NoneStr, crash_method |-> NoneStr, crash_file |-> NoneStr,
      crash_class |-> NoneStr ]

\* str(x) of an Optional[str]: str(None) is the string "None".
Str(x) == IF x = NoneStr THEN <<"N", "o", "n", "e">> ELSE x[1]

\* sep.join(parts)
RECURSIVE Join(_, _)
Join(sep, parts) ==
    IF parts = <<>> THEN <<>>
    ELSE IF Len(parts) = 1 THEN parts[1]
    ELSE parts[1] \o sep \o Join(sep, Tail(parts))

\* The identifier added to the hashed fields.
Properties_with_id(self) ==
    << Some([k \in 1..self.identifier |-> "i"]), self.exception_type, self.reason,
       self.crash_method, self.crash_file, self.crash_class >>

\* Lines 75-81: the fields the hash is made of.
Properties(self) ==
    << self.exception_type, self.reason, self.crash_method, self.crash_file,
       self.crash_class >>

\* The builtin hash of a str: the same string always hashes the same, and
\* distinct strings are taken to hash differently (the hash value is
\* represented by the string hashed).
PyHash(s) == <<"hash", s>>

\* Line 83.
Hash(self) ==
    PyHash(Join(<<"-">>, [k \in 1..Len(Properties(self)) |-> Str(Properties(self)[k])]))

\* Lines 93-96.
Eq(self, other) ==
    IF other.type # "HockeyCrashGroup" THEN FALSE
    ELSE Hash(self) = Hash(other)

NotCompared == [done |-> FALSE, eq |-> FALSE, hash_self |-> <<>>, hash_other |-> <<>>]

\* a == b and the two hashes are evaluated.
Compare ==
    /\ ~cmp.done
    /\ cmp' = [ done |-> TRUE,
                eq |-> Eq(a, b),
                hash_self |-> Hash(a),
                hash_other |-> IF b.type = "HockeyCrashGroup" THEN Hash(b) ELSE <<>> ]
    /\ UNCHANGED <<a, b, pagingVars, decodeVars>>

(* ------------------------------ decoding ------------------------------ *)
\* Lines 23-42: the annotated fields of HockeyCrashGroup.
HockeyCrashGroupFields ==
    { "identifier", "app_id", "created_at", "updated_at", "status", "reason",
      "last_crash_at", "exception_type", "fixed", "app_version_id", "bundle_version",
      "bundle_short_version", "number_of_crashes", "grouping_hash", "grouping_type",
      "pattern", "crash_method", "crash_file", "crash_class", "crash_line" }

\* crash_file read from "class" and crash_class from "file".
HockeyCrashGroupKeys_crossed ==
    [ identifier |-> "id", crash_method |-> "method", crash_file |-> "class",
      crash_class |-> "file", crash_line |-> "line" ]

\* Lines 15-19: the deserialize.key decorators of HockeyCrashGroup.
HockeyCrashGroupKeys ==
    [ identifier |-> "id", crash_method |-> "method", crash_file |-> "file",
      crash_class |-> "class", crash_line |-> "line" ]

\* Lines 114-129: the annotated fields of HockeyCrashInstance.
HockeyCrashInstanceFields ==
    { "identifier", "app_id", "crash_reason_id", "created_at", "updated_at", "oem",
      "model", "os_version", "jail_break", "contact_string", "user_string", "has_log",
      "has_description", "app_version_id", "bundle_version", "bundle_short_version" }

\* Line 110: the deserialize.key decorator of HockeyCrashInstance.
HockeyCrashInstanceKeys == [ identifier |-> "id" ]

Classes == {"HockeyCrashGroup", "HockeyCrashInstance"}

FieldsOf(c) ==
    IF c = "HockeyCrashGroup" THEN HockeyCrashGroupFields ELSE HockeyCrashInstanceFields

KeysOf(c) ==
    IF c = "HockeyCrashGroup" THEN HockeyCrashGroupKeys ELSE HockeyCrashInstanceKeys

\* deserialize.key(property, key): the raw key a field is read from, the
\* field's own name when no decorator names it.
RawKey(c, field) == IF field \in DOMAIN KeysOf(c) THEN KeysOf(c)[field] ELSE field

\* The keys of a raw record of class c, as the service sends it.
RawKeys(c) ==
    IF c = "HockeyCrashGroup"
    THEN (HockeyCrashGroupFields
            \ {"identifier", "crash_method", "crash_file", "crash_class", "crash_line"})
         \cup {"id", "method", "file", "class", "line"}
    ELSE (HockeyCrashInstanceFields \ {"identifier"}) \cup {"id"}

\* values a raw field may hold
MaxValues == 2

\* The raw keys whose value is varied; every other key holds its first value.
Varied == {"id", "method", "file", "class", "line", "reason", "status"}

\* Raw records: the value under key k is written <<k, n>>, so that values
\* under different keys differ.
RawRecords(c) ==
    { [k \in RawKeys(c) |-> <<k, IF k \in Varied THEN v[k] ELSE 1>>] :
        v \in [Varied \cap RawKeys(c) -> 1..MaxValues] }

NotDecoded == [done |-> FALSE, object |-> <<>>]

\* deserialize.deserialize(class, raw) for one record: every annotated field
\* is read from its raw key.
Deserialize(c, record) == [field \in FieldsOf(c) |-> record[RawKey(c, field)]]

\* Lines 176 / 228, for one record of the envelope.
Decode ==
    /\ ~decoded.done
    /\ cls \in Classes
    /\ decoded' = [done |-> TRUE, object |-> Deserialize(cls, raw)]
    /\ UNCHANGED <<cls, raw, pagingVars, groupVars>>

(* --------------------------- specification ---------------------------- *)

Init ==
    /\ resource \in {"crash_reasons", "crashes"}
    /\ server = [p \in Pages |-> Unset]
    /\ inv = [i \in Inv |-> NoInv]
    /\ running = 0
    /\ a = OtherObject
    /\ b = OtherObject
    /\ cmp = NotCompared
    /\ cls = "none"
    /\ raw = <<>>
    /\ decoded = NotDecoded

\* What the generator and the eager loop do once an invocation is made.
Run(i) ==
    \/ GenFetch(i)
    \/ GenFetchRaise(i)
    \/ GenYield(i)
    \/ GenContinue(i)
    \/ EagerLoopBody(i)
    \/ EagerReturn(i)

\* One invocation of any of the four operations, with any arguments.
Next ==
    \/ \E t \in Targets, start \in 1..MaxStart :
           generate_groups_for_version(1, t.app_id, t.app_version_id, start)
    \/ \E t \in Targets, start \in 1..MaxStart :
           generate_in_group(1, t.app_id, t.app_version_id, t.crash_group_id, start)
    \/ \E t \in Targets, k \in 0..MaxCount :
           groups_for_version(1, t.app_id, t.app_version_id, <<k>>)
    \/ \E t \in Targets : groups_for_version(1, t.app_id, t.app_version_id, NoneInt)
    \/ \E t \in Targets : in_group(1, t.app_id, t.app_version_id, t.crash_group_id)
    \/ Pull(1)
    \/ PullEnded(1)
    \/ Run(1)

Spec == Init /\ [][Next]_vars

\* A lazy form called with the default page and pulled to its end, the
\* reference, then an eager form over the same collection.
Reference == 1

NextPair ==
    \/ generate_groups_for_version(Reference, Target1.app_id, Target1.app_version_id, 1)
    \/ generate_in_group(Reference, Target1.app_id, Target1.app_version_id,
                         Target1.crash_group_id, 1)
    \/ Pull(Reference)
    \/ \E k \in 0..MaxCount :
           /\ OneAtATime(2)
           /\ groups_for_version(2, Target1.app_id, Target1.app_version_id, <<k>>)
    \/ /\ OneAtATime(2)
       /\ groups_for_version(2, Target1.app_id, Target1.app_version_id, NoneInt)
    \/ /\ OneAtATime(2)
       /\ in_group(2, Target1.app_id, Target1.app_version_id, Target1.crash_group_id)
    \/ \E i \in Inv : Run(i)

SpecPair == Init /\ [][NextPair]_vars

\* What a generator does inside a pull.
RunLazy(i) ==
    \/ GenFetch(i)
    \/ GenFetchRaise(i)
    \/ GenYield(i)
    \/ GenContinue(i)

\* One lazy sequence, started at any page and pulled any number of times.
NextLazy ==
    \/ \E start \in 1..MaxStart :
           generate_groups_for_version(1, Target1.app_id, Target1.app_version_id, start)
    \/ \E start \in 1..MaxStart :
           generate_in_group(1, Target1.app_id, Target1.app_version_id,
                             Target1.crash_group_id, start)
    \/ Pull(1)
    \/ PullEnded(1)
    \/ RunLazy(1)

\* Its consumer keeps pulling: a pull that is possible is eventually made,
\* and the code that holds the thread runs on.
SpecLazy == Init /\ [][NextLazy]_vars /\ WF_vars(Pull(1)) /\ WF_vars(RunLazy(1))

\* A collection of T pages of n items each, every page reporting
\* total_pages = T, where the request of page F (if any) fails for good
\* with error e.
Collection(T, n, F, e) ==
    [ p \in Pages |->
        IF p = F
        THEN [status |-> "error", items |-> <<>>, total_pages |-> 0, error |-> e]
        ELSE [status |-> "ok", items |-> ItemsOf(p, n), total_pages |-> T, error |-> ""] ]

InitCollection ==
    /\ resource \in {"crash_reasons", "crashes"}
    /\ \E T \in 0..MaxPages, n \in 0..MaxItems, F \in 0..MaxPages,
          e \in {"RequestFailed", "DecodeError"} :
            server = Collection(T, n, F, e)
    /\ inv = [i \in Inv |-> NoInv]
    /\ running = 0
    /\ a = OtherObject
    /\ b = OtherObject
    /\ cmp = NotCompared
    /\ cls = "none"
    /\ raw = <<>>
    /\ decoded = NotDecoded

\* One lazy sequence over a transport whose attempts may fail.
NextRetry ==
    \/ \E start \in 1..MaxStart :
           generate_groups_for_version(1, Target1.app_id, Target1.app_version_id, start)
    \/ \E start \in 1..MaxStart :
           generate_in_group(1, Target1.app_id, Target1.app_version_id,
                             Target1.crash_group_id, start)
    \/ Pull(1)
    \/ GetAttemptFails(1)
    \/ RunLazy(1)

SpecRetry == InitCollection /\ [][NextRetry]_vars

\* The first sequence asks about the first application, the second about
\* the same or about another one.
TargetsOf(i) == IF i = 1 THEN {Target1} ELSE Targets

\* Two lazy sequences made by the same client, pulled in any interleaving.
NextInterleaved ==
    \/ \E i \in Inv : \E t \in TargetsOf(i), start \in 1..MaxStart :
           generate_groups_for_version(i, t.app_id, t.app_version_id, start)
    \/ \E i \in Inv : \E t \in TargetsOf(i), start \in 1..MaxStart :
           generate_in_group(i, t.app_id, t.app_version_id, t.crash_group_id, start)
    \/ \E i \in Inv : Pull(i)
    \/ \E i \in Inv : PullEnded(i)
    \/ \E i \in Inv : RunLazy(i)

SpecInterleaved == InitCollection /\ [][NextInterleaved]_vars

\* A lazy sequence started at any page and pulled any number of times,
\* ended or not; then a second invocation, of any of the four operations,
\* for the same application.
NextAgain ==
    \/ \E i \in Inv, start \in 1..MaxStart :
           generate_groups_for_version(i, Target1.app_id, Target1.app_version_id, start)
    \/ \E i \in Inv, start \in 1..MaxStart :
           generate_in_group(i, Target1.app_id, Target1.app_version_id,
                             Target1.crash_group_id, start)
    \/ \E k \in 0..MaxCount :
           groups_for_version(2, Target1.app_id, Target1.app_version_id, <<k>>)
    \/ groups_for_version(2, Target1.app_id, Target1.app_version_id, NoneInt)
    \/ in_group(2, Target1.app_id, Target1.app_version_id, Target1.crash_group_id)
    \/ inv[2].form = "none" /\ Pull(1)
    \/ Pull(2)
    \/ \E i \in Inv : Run(i)

SpecAgain == InitCollection /\ [][NextAgain]_vars

\* The equality / hashing policy: two records are drawn, then compared.
InitGroups ==
    /\ resource = "crash_reasons"
    /\ server = [p \in Pages |-> Unset]
    /\ inv = [i \in Inv |-> NoInv]
    /\ running = 0
    /\ a \in HockeyCrashGroup
    /\ b \in HockeyCrashGroup \cup {OtherObject}
    /\ cmp = NotCompared
    /\ cls = "none"
    /\ raw = <<>>
    /\ decoded = NotDecoded

NextGroups == Compare

SpecGroups == InitGroups /\ [][NextGroups]_vars

\* Decoding: a raw record of either class is drawn, then decoded.
InitDecode ==
    /\ resource = "crash_reasons"
    /\ server = [p \in Pages |-> Unset]
    /\ inv = [i \in Inv |-> NoInv]
    /\ running = 0
    /\ a = OtherObject
    /\ b = OtherObject
    /\ cmp = NotCompared
    /\ cls \in Classes
    /\ raw \in RawRecords(cls)
    /\ decoded = NotDecoded

NextDecode == Decode

SpecDecode == InitDecode /\ [][NextDecode]_vars

(* ================================ claims =============================== *)
\* The page numbers invocation i has requested, in order.
ReqPages(i) == [k \in 1..Len(inv[i].requests) |-> inv[i].requests[k].page]

\* <<lo, lo+1, ..., hi>>
PageRange(lo, hi) == [k \in 1..(hi - lo + 1) |-> lo + k - 1]

\* The items of the given pages, page after page, as the server holds them.
RECURSIVE ItemsOfPages(_)
ItemsOfPages(pages) ==
    IF pages = <<>> THEN <<>>
    ELSE server[Head(pages)].items \o ItemsOfPages(Tail(pages))

\* Every page the server has answered reports total_pages = T, without error.
UniformTotal(T) ==
    \A p \in Pages :
        server[p].status # "unset" =>
            server[p].status = "ok" /\ server[p].total_pages = T

LazyDone(i) == inv[i].form = "lazy" /\ inv[i].pc = "exhausted"

EagerDone(i) == inv[i].form = "eager" /\ inv[i].result = "returned"

NoDuplicates(s) == Cardinality({s[k] : k \in 1..Len(s)}) = Len(s)

\* C1 as stated: when every page reports the same total_pages T, the lazy
\* sequence started at page 1 and pulled to exhaustion is the concatenation
\* of the item lists of pages 1..T.
C1_Claim ==
    \A i \in Inv, T \in 0..MaxPages :
        (LazyDone(i) /\ inv[i].start = 1 /\ UniformTotal(T)) =>
            /\ \A p \in 1..T : server[p].status = "ok"
            /\ inv[i].yielded = ItemsOfPages(PageRange(1, T))

\* C1 amended: when every page reports the same total_pages T, the lazy
\* sequence started at page 1 and pulled to exhaustion is the concatenation
\* of the item lists of pages 1..max(T, 1), in page order and in the
\* server's order within a page, no item duplicated or missing: page 1 is
\* fetched and its items are yielded even when T is 0.
C1_Amended ==
    \A i \in Inv, T \in 0..MaxPages :
        (LazyDone(i) /\ inv[i].start = 1 /\ UniformTotal(T)) =>
            /\ \A p \in 1..Max(T, 1) : server[p].status = "ok"
            /\ inv[i].yielded = ItemsOfPages(PageRange(1, Max(T, 1)))
            /\ NoDuplicates(inv[i].yielded)

\* A 2-page collection (2 items, then 1) pulled to exhaustion.
C1_Witness ==
    \E i \in Inv :
        /\ LazyDone(i) /\ inv[i].start = 1 /\ UniformTotal(2)
        /\ Len(inv[i].yielded) = 3
        /\ inv[i].yielded[2].page = 1 /\ inv[i].yielded[3].page = 2

ConsumedWhole(i) ==
    \/ LazyDone(i) /\ inv[i].start = 1
    \/ EagerDone(i) /\ inv[i].max_count = NoneInt

\* C2 as stated: consuming the sequence to exhaustion, lazily or eagerly
\* without max_count, performs exactly T page fetches when every page
\* reports total_pages = T.
C2_Claim ==
    \A i \in Inv, T \in 0..MaxPages :
        (ConsumedWhole(i) /\ UniformTotal(T)) => Len(inv[i].requests) = T

\* C2 amended: it performs exactly max(T, 1) page fetches: page 1 is always
\* fetched, so a collection reporting total_pages = 0 costs one fetch.
C2_Amended ==
    \A i \in Inv, T \in 0..MaxPages :
        (ConsumedWhole(i) /\ UniformTotal(T)) =>
            Len(inv[i].requests) = Max(T, 1)

\* The eager form without max_count over a 2-page collection of 3 items.
C2_Witness ==
    \E i \in Inv :
        /\ EagerDone(i) /\ inv[i].max_count = NoneInt /\ UniformTotal(2)
        /\ Len(inv[i].ret) = 3
        /\ Len(inv[i].requests) = 2

Limited(i) == inv[i].form = "eager" /\ inv[i].max_count # NoneInt

\* C3 as stated: groups_for_version with max_count = k returns the first k
\* items of the lazy sequence over the same responses (all of them when
\* fewer than k exist), and never more than k items.
C3_Claim ==
    \A i \in Inv :
        (Limited(i) /\ EagerDone(i) /\ LazyDone(Reference)) =>
            /\ inv[i].ret = Prefix(inv[Reference].yielded, inv[i].max_count[1])
            /\ Len(inv[i].ret) <= inv[i].max_count[1]

\* The pages needed to produce k items of the lazy sequence.
Needed(k) ==
    IF k <= 0 THEN <<>>
    ELSE IF Len(inv[Reference].yielded) >= k
         THEN PageRange(1, inv[Reference].yielded[k].page)
         ELSE ReqPages(Reference)

\* C4 as stated: groups_for_version with max_count = k fetches exactly the
\* pages up to the one holding the k-th item of the lazy sequence (all pages
\* when fewer than k items exist), and every fetch is made while the
\* accumulated count is still below k.
C4_Claim ==
    \A i \in Inv :
        (Limited(i) /\ inv[i].pc # "raised") =>
            /\ \A n \in 1..Len(inv[i].requests) :
                   Len(ItemsOfPages(SubSeq(ReqPages(i), 1, n - 1))) < inv[i].max_count[1]
            /\ (EagerDone(i) /\ LazyDone(Reference)) =>
                   ReqPages(i) = Needed(inv[i].max_count[1])

\* C5: the eager forms without a limit return exactly what the lazy form
\* yields over the same responses, in the same order, with the same page
\* fetches.
C5_Theorem ==
    \A i \in Inv :
        (EagerDone(i) /\ inv[i].max_count = NoneInt /\ LazyDone(Reference)) =>
            /\ inv[i].ret = inv[Reference].yielded
            /\ inv[i].requests = inv[Reference].requests

\* Both forms ran over the same collection of at least two pages.
C5_Witness ==
    \E i \in Inv :
        /\ EagerDone(i) /\ inv[i].max_count = NoneInt /\ LazyDone(Reference)
        /\ Len(inv[i].ret) >= 3
        /\ Len(inv[i].requests) >= 2
        /\ inv[i].ret[1].page # Last(inv[i].ret).page

\* Creating the sequence fetches nothing, and a page is requested only
\* inside a pull, once every item of the pages before it is delivered.
OnDemand(i) ==
    /\ inv[i].pc = "created" => inv[i].requests = <<>>
    /\ inv[i].pc = "fetch" =>
           running = i /\ inv[i].yielded = ItemsOfPages(ReqPages(i))

\* C6 as stated: the lazy form fetches on demand only, and whenever the
\* consumer holds j >= 1 items (and no request has failed) the pages fetched
\* are exactly those up to the page of the j-th item.
C6_Claim ==
    \A i \in Inv :
        inv[i].form = "lazy" =>
            /\ OnDemand(i)
            /\ (running # i /\ Len(inv[i].yielded) >= 1 /\ inv[i].pc # "raised") =>
                   ReqPages(i) = PageRange(inv[i].start, Last(inv[i].yielded).page)

\* C6 amended: the lazy form fetches on demand only, and whenever a pull has
\* just handed the consumer its j-th item the pages fetched are exactly
\* those up to the page of the j-th item.  (A later pull that finds only
\* empty pages fetches them and delivers nothing, so that at the end of the
\* sequence more pages are fetched than the page of the last item.)
C6_Amended ==
    \A i \in Inv :
        inv[i].form = "lazy" =>
            /\ OnDemand(i)
            /\ inv[i].pc = "suspended" =>
                   ReqPages(i) = PageRange(inv[i].start, Last(inv[i].yielded).page)

\* The consumer holds the first item of the second page; a third page is
\* announced and has not been requested.
C6_Witness ==
    \E i \in Inv :
        /\ inv[i].form = "lazy" /\ inv[i].pc = "suspended" /\ running = 0
        /\ inv[i].start = 1
        /\ Len(inv[i].yielded) = 2
        /\ Last(inv[i].yielded) = [page |-> 2, pos |-> 1]
        /\ inv[i].response.total_pages = 3
        /\ ReqPages(i) = <<1, 2>>

\* The five signature fields, read off the record.
Signature(g) ==
    [ exception_type |-> g.exception_type, reason |-> g.reason,
      crash_method |-> g.crash_method, crash_file |-> g.crash_file,
      crash_class |-> g.crash_class ]

Compared == cmp.done /\ b.type = "HockeyCrashGroup"

\* C7 as stated: two HockeyCrashGroup records compare equal if and only if
\* their five signature fields are pairwise equal.
C7_Claim == Compared => (cmp.eq <=> Signature(a) = Signature(b))

\* C8: records with the same five signature fields compare equal and hash
\* equal whatever their other fields are, and a == b implies equal hashes.
C8_Theorem ==
    Compared =>
        /\ Signature(a) = Signature(b) =>
               cmp.eq /\ cmp.hash_self = cmp.hash_other
        /\ cmp.eq => cmp.hash_self = cmp.hash_other

\* Same signature, with a '-' and a None in it, different identifiers.
C8_Witness ==
    /\ Compared /\ cmp.eq
    /\ Signature(a) = Signature(b)
    /\ a.identifier # b.identifier
    /\ a.reason = Some(<<"a", "-", "a">>)
    /\ a.crash_file = NoneStr

\* C9: after page N the engine fetches page N+1 if and only if page N's own
\* total_pages is greater than N, whatever the page holds; otherwise the
\* sequence ends.
C9_Theorem ==
    \A i \in Inv :
        \A k \in 1..Len(inv[i].requests) :
            LET N == inv[i].requests[k].page
            IN  /\ k < Len(inv[i].requests) =>
                       server[N].status = "ok" /\ server[N].total_pages > N
                /\ (k = Len(inv[i].requests) /\ inv[i].pc = "exhausted") =>
                       server[N].status = "ok" /\ server[N].total_pages <= N

\* An empty page 1 announcing 3 pages was followed by the fetch of page 2,
\* and the sequence ended there because page 2 announced fewer pages.
C9_Witness ==
    \E i \in Inv :
        /\ inv[i].pc = "exhausted"
        /\ ReqPages(i) = <<1, 2>>
        /\ server[1].items = <<>> /\ server[1].total_pages = 3
        /\ server[2].items # <<>> /\ server[2].total_pages = 1

\* C10: the pages one invocation requests are start, start+1, start+2, ...,
\* each once, none skipped.
C10_Theorem ==
    \A i \in Inv :
        \A k \in 1..Len(inv[i].requests) :
            inv[i].requests[k].page = inv[i].start + k - 1

\* A sequence started at page 2 that went on to page 3.
C10_Witness ==
    \E i \in Inv :
        /\ inv[i].start = 2
        /\ ReqPages(i) = <<2, 3>>

\* The request that failed, if the last request of invocation i did.
FailedAt(i) ==
    IF inv[i].requests # <<>> /\ server[Last(inv[i].requests).page].status = "error"
    THEN Last(inv[i].requests).page
    ELSE 0

\* C11: a fetch or decode failure of page N is not caught: the request of
\* page N is the invocation's last, the exception of get / deserialize is
\* the one the caller gets, at that very pull; a lazy consumer has received
\* exactly the items of the pages before N, and an eager call raises and
\* returns no list.
C11_Theorem ==
    \A i \in Inv :
        \A k \in 1..Len(inv[i].requests) :
            LET N == inv[i].requests[k].page
            IN  server[N].status = "error" =>
                    /\ k = Len(inv[i].requests)
                    /\ inv[i].pc = "raised" /\ running # i
                    /\ inv[i].error = server[N].error
                    /\ inv[i].yielded = ItemsOfPages(PageRange(inv[i].start, N - 1))
                    /\ \A j \in 1..Len(inv[i].yielded) : inv[i].yielded[j].page < N
                    /\ inv[i].form = "eager" =>
                           inv[i].result = "raised" /\ inv[i].ret = <<>>

\* An eager call that had accumulated the two items of page 1 when the
\* decode of page 2 failed.
C11_Witness ==
    \E i \in Inv :
        /\ inv[i].form = "eager" /\ inv[i].result = "raised"
        /\ FailedAt(i) = 2
        /\ inv[i].error = "DecodeError"
        /\ Len(inv[i].groups) = 2
        /\ inv[i].ret = <<>>

\* C12: every page is requested with a retry budget of 3 attempts.  A get
\* makes 1 to 3 attempts, a failed attempt being followed by another one
\* only twice; a page obtained, on the 3rd attempt as on the 1st, has its
\* items yielded as usual; a page whose attempts all fail raises
\* RequestFailed once the 3 attempts are spent, and no item of it is yielded.
C12_Theorem ==
    \A i \in Inv :
        /\ Len(inv[i].attempts) = Len(inv[i].requests)
        /\ inv[i].tries <= 2
        /\ inv[i].pc \in {"exhausted", "raised"} =>
               inv[i].yielded = ItemsOfPages(ReqPages(i))
        /\ \A k \in 1..Len(inv[i].requests) :
               LET N == inv[i].requests[k].page
               IN  /\ inv[i].requests[k].retry_count = 3
                   /\ inv[i].attempts[k] \in 1..3
                   /\ server[N].status = "ok" =>
                          (k < Len(inv[i].requests) =>
                               \A x \in 1..Len(server[N].items) :
                                   \E j \in 1..Len(inv[i].yielded) :
                                       inv[i].yielded[j] = server[N].items[x])
                   /\ server[N].error = "RequestFailed" =>
                          /\ inv[i].attempts[k] = 3
                          /\ inv[i].pc = "raised" /\ inv[i].error = "RequestFailed"
                          /\ \A j \in 1..Len(inv[i].yielded) : inv[i].yielded[j].page # N

\* Page 1 was obtained on the 3rd attempt and its two items were yielded;
\* the 3 attempts for page 2 all failed.
C12_Witness ==
    \E i \in Inv :
        /\ inv[i].attempts = <<3, 3>>
        /\ ReqPages(i) = <<1, 2>>
        /\ server[1].status = "ok"
        /\ inv[i].yielded = <<[page |-> 1, pos |-> 1], [page |-> 1, pos |-> 2]>>
        /\ inv[i].pc = "raised" /\ inv[i].error = "RequestFailed"

\* Every page requested after the first is within the total_pages the page
\* before it reported, and the pages requested are no more than the largest
\* total_pages reported allows.
C13_Bounded ==
    \A i \in Inv :
        /\ \A k \in 2..Len(inv[i].requests) :
               LET told == server[inv[i].requests[k - 1].page]
               IN  told.status = "ok" /\ inv[i].requests[k].page <= told.total_pages
        /\ Len(inv[i].requests) >= 2 =>
               \E k \in 1..Len(inv[i].requests) :
                   Len(inv[i].requests) <=
                       server[inv[i].requests[k].page].total_pages - inv[i].start + 1

\* A lazy sequence whose consumer keeps pulling comes to its end or to an
\* error.
C13_Terminates ==
    \A i \in Inv :
        (inv[i].form = "lazy") ~> (inv[i].pc \in {"exhausted", "raised"})

\* C13: the lazy sequence is finite, bounded by total_pages: whatever the
\* server answers, total_pages changing from page to page included, a
\* consumer that keeps pulling reaches the end of the sequence or an error,
\* and no page is fetched whose number exceeds the total_pages reported.
C13_Theorem == []C13_Bounded /\ C13_Terminates

\* A sequence that ended at page 2 of the 3 pages page 1 had announced,
\* because page 2 announced 2.
C13_Witness ==
    \E i \in Inv :
        /\ LazyDone(i)
        /\ ReqPages(i) = <<1, 2>>
        /\ server[1].total_pages = 3 /\ server[2].total_pages = 2
        /\ Len(inv[i].yielded) = 4

\* C18: a failure ends the lazy sequence for good.  Once a pull has raised
\* the failure of page N, the generator's code never runs again: its
\* requests stay start..N (page N not retried, page N+1 never requested),
\* the items yielded stay those of the pages before N, and every later pull
\* reports the end of the sequence.
C18_Theorem ==
    \A i \in Inv :
        (inv[i].form = "lazy" /\ inv[i].error # "") =>
            LET N == Last(inv[i].requests).page
            IN  /\ running # i
                /\ inv[i].last \in {"raise", "StopIteration"}
                /\ server[N].status = "error"
                /\ ReqPages(i) = PageRange(inv[i].start, N)
                /\ inv[i].yielded = ItemsOfPages(PageRange(inv[i].start, N - 1))

\* The request of page 2 failed after one item of page 1 was yielded, and
\* a later pull was answered with the end of the sequence.
C18_Witness ==
    \E i \in Inv :
        /\ inv[i].form = "lazy" /\ inv[i].error = "RequestFailed"
        /\ inv[i].last = "StopIteration"
        /\ ReqPages(i) = <<1, 2>>
        /\ Len(inv[i].yielded) = 1

\* C19: the retry budget is per page.  Every request is issued with a
\* budget of 3, no count of failed attempts outlives the get it belongs to,
\* and a get makes as many as 3 attempts whatever the earlier pages took.
C19_Theorem ==
    \A i \in Inv :
        /\ inv[i].pc # "fetch" => inv[i].tries = 0
        /\ Len(inv[i].attempts) = Len(inv[i].requests)
        /\ \A k \in 1..Len(inv[i].requests) :
               /\ inv[i].requests[k].retry_count = RETRY_COUNT
               /\ inv[i].attempts[k] <= RETRY_COUNT
        /\ (inv[i].pc = "fetch" /\ running = i /\ inv[i].tries < RETRY_COUNT - 1) =>
               ENABLED GetAttemptFails(i)

\* A sequence of 3 pages that took 3 attempts on each page and completed.
C19_Witness ==
    \E i \in Inv :
        /\ LazyDone(i)
        /\ ReqPages(i) = <<1, 2, 3>>
        /\ inv[i].attempts = <<3, 3, 3>>
        /\ Len(inv[i].yielded) = 3

\* C17: moving from page N to page N+1 changes only the page number of the
\* request: every request of an invocation is its first request with the
\* page number moved on, so it carries the same app id, app-version id and
\* (for instances) crash-group id, the page size 100, the order 'desc' and
\* the retry budget 3.
C17_Theorem ==
    \A i \in Inv :
        \A k \in 1..Len(inv[i].requests) :
            /\ inv[i].requests[k] =
                   [inv[i].requests[1] EXCEPT !.page = inv[i].requests[1].page + k - 1]
            /\ inv[i].requests[k].per_page = 100
            /\ inv[i].requests[k].order = "desc"
            /\ inv[i].requests[k].retry_count = 3
            /\ \E t \in Targets :
                   /\ inv[i].requests[k].app_id = t.app_id
                   /\ inv[i].requests[k].app_version_id = t.app_version_id
                   /\ inv[i].requests[k].crash_group_id =
                          IF resource = "crashes" THEN t.crash_group_id ELSE ""

\* in_group for the second application has requested three pages.
C17_Witness ==
    \E i \in Inv :
        /\ inv[i].form = "eager" /\ resource = "crashes"
        /\ Len(inv[i].requests) = 3
        /\ inv[i].requests[3].app_id = "a2"
        /\ inv[i].requests[3].crash_group_id = "g2"
        /\ inv[i].requests[3].page = 3

\* The pages a lazy sequence started at page p requests when it is consumed
\* alone, over the responses the server holds.
RECURSIVE AlonePages(_)
AlonePages(p) ==
    IF p \notin Pages THEN <<>>
    ELSE IF server[p].status = "ok" /\ server[p].total_pages > p
         THEN <<p>> \o AlonePages(p + 1)
         ELSE <<p>>

IsPrefix(s, t) == Len(s) <= Len(t) /\ s = SubSeq(t, 1, Len(s))

Ended(i) == inv[i].pc \in {"exhausted", "raised"}

\* C14: invocations are independent.  However two lazy sequences of one
\* client are interleaved, each requests the pages and yields the items it
\* would if consumed alone (a prefix of them until it has ended), with its
\* own arguments; two sequences started at the same page that have both
\* ended have yielded the same items and requested the same pages.
C14_Theorem ==
    \A i \in Inv :
        inv[i].form = "lazy" =>
            /\ IsPrefix(ReqPages(i), AlonePages(inv[i].start))
            /\ IsPrefix(inv[i].yielded, ItemsOfPages(AlonePages(inv[i].start)))
            /\ inv[i].pc \in {"suspended", "loop"} =>
                   inv[i].yielded =
                       ItemsOfPages(SubSeq(ReqPages(i), 1, Len(ReqPages(i)) - 1))
                           \o SubSeq(inv[i].response.items, 1,
                                     Len(inv[i].yielded) -
                                       Len(ItemsOfPages(SubSeq(ReqPages(i), 1,
                                                               Len(ReqPages(i)) - 1))))
            /\ Ended(i) =>
                   /\ ReqPages(i) = AlonePages(inv[i].start)
                   /\ inv[i].yielded = ItemsOfPages(AlonePages(inv[i].start))
            /\ \A k \in 1..Len(inv[i].requests) :
                   /\ inv[i].requests[k].app_id = inv[i].app_id
                   /\ inv[i].requests[k].app_version_id = inv[i].app_version_id
            /\ \A j \in Inv :
                   (inv[j].form = "lazy" /\ inv[j].start = inv[i].start
                      /\ Ended(i) /\ Ended(j)) =>
                       /\ inv[j].yielded = inv[i].yielded
                       /\ ReqPages(j) = ReqPages(i)

\* Two sequences over a 2-page collection, for different applications, both
\* suspended: the first has been pulled into page 2, the second holds the
\* first item of page 1.
C14_Witness ==
    /\ inv[1].form = "lazy" /\ inv[2].form = "lazy"
    /\ inv[1].start = 1 /\ inv[2].start = 1
    /\ inv[1].app_id # inv[2].app_id
    /\ inv[1].pc = "suspended" /\ inv[2].pc = "suspended"
    /\ Len(inv[1].yielded) = 3 /\ ReqPages(1) = <<1, 2>>
    /\ Len(inv[2].yielded) = 1 /\ ReqPages(2) = <<1>>

\* The page numbers of the items invocation i has yielded.
YieldedPages(i) == { inv[i].yielded[k].page : k \in 1..Len(inv[i].yielded) }

RequestedPages(i) == { inv[i].requests[k].page : k \in 1..Len(inv[i].requests) }

\* C15 as stated: the first page an invocation requests is page 1, however
\* far an earlier invocation progressed, and every page it yields items of
\* it has fetched itself.
C15_Claim ==
    \A i \in Inv :
        /\ inv[i].requests # <<>> => inv[i].requests[1].page = 1
        /\ YieldedPages(i) \subseteq RequestedPages(i)

\* C15 amended: the first page an invocation requests is the page given as
\* its page argument (page 1 by default, and always page 1 for the eager
\* forms, which pass none), however far an earlier invocation progressed;
\* no cursor is kept between invocations, and every page an invocation
\* yields items of it has fetched itself, pages an earlier invocation had
\* fetched included.
C15_Amended ==
    \A i \in Inv :
        /\ inv[i].requests # <<>> => inv[i].requests[1].page = inv[i].start
        /\ inv[i].form = "eager" => inv[i].start = 1
        /\ YieldedPages(i) \subseteq RequestedPages(i)
        /\ (inv[i].form # "none" /\ inv[i].pc \notin {"created", "fetch"}) =>
               inv[i].requests # <<>>

\* The first sequence went on to page 2; the second invocation, an eager
\* call, fetched page 1 again and went on to page 2 as well.
C15_Witness ==
    /\ inv[1].form = "lazy" /\ ReqPages(1) = <<1, 2>> /\ inv[1].pc = "suspended"
    /\ inv[2].form = "eager" /\ ReqPages(2) = <<1, 2>>
    /\ Len(inv[2].groups) >= 2
    /\ inv[2].groups[1] = inv[1].yielded[1]

\* C16: decoding applies the field-rename mapping exactly.  A raw crash
\* group's id, method, file, class, line become identifier, crash_method,
\* crash_file, crash_class, crash_line, a raw crash instance's id becomes
\* identifier, and every other field is copied under its own name.
C16_Theorem ==
    decoded.done =>
        LET object == decoded.object
        IN  /\ object.identifier = raw["id"]
            /\ cls = "HockeyCrashGroup" =>
                   /\ DOMAIN object = HockeyCrashGroupFields
                   /\ object.crash_method = raw["method"]
                   /\ object.crash_file = raw["file"]
                   /\ object.crash_class = raw["class"]
                   /\ object.crash_line = raw["line"]
                   /\ \A f \in DOMAIN object \ {"identifier", "crash_method", "crash_file",
                                                  "crash_class", "crash_line"} :
                          object[f] = raw[f]
            /\ cls = "HockeyCrashInstance" =>
                   /\ DOMAIN object = HockeyCrashInstanceFields
                   /\ \A f \in DOMAIN object \ {"identifier"} : object[f] = raw[f]

\* A crash group decoded from a raw record whose file and class hold
\* different values.
C16_Witness ==
    /\ decoded.done /\ cls = "HockeyCrashGroup"
    /\ raw["file"] = <<"file", 1>> /\ raw["class"] = <<"class", 2>>
    /\ decoded.object.crash_file = <<"file", 1>>
    /\ decoded.object.crash_class = <<"class", 2>>
    /\ decoded.object.reason = <<"reason", 2>>

====
